---- MODULE Spec2Model ----
(***************************************************************************)
(* HeatDuelGame (src/overheat.js): a two-player card duel with hp and heat. *)
(* The model covers the engine's state, its three entry points (startTurn,  *)
(* playCard, playCardSimultaneous), the scheduled startTurn continuation    *)
(* (setTimeout), and the IEEE-754 double arithmetic of the damage formula.  *)
(***************************************************************************)
EXTENDS Integers, Sequences, FiniteSets, TLC

(***************************************************************************)
(* JavaScript Number arithmetic.  heat/100, damage*multiplier and           *)
(* 1 - heat/100 are IEEE-754 binary64 operations, each rounded to a 53-bit  *)
(* significand (round half to even).  A Number is [sgn, man, exp] with      *)
(* value sgn * man * 2^exp; man is a natural number held as little-endian   *)
(* limbs of 14 bits, because TLC's integers are 32 bits wide.               *)
(***************************************************************************)
LimbBits == 14

LimbBase == 16384

SignificandBits == 53

Max(a, b) == IF a >= b THEN a ELSE b

Min(a, b) == IF a <= b THEN a ELSE b

Abs(n) == IF n < 0 THEN -n ELSE n

Sign(n) == IF n = 0 THEN 0 ELSE IF n > 0 THEN 1 ELSE -1

RECURSIVE BigFromNat(_)
BigFromNat(n) ==
    IF n = 0 THEN <<>> ELSE <<n % LimbBase>> \o BigFromNat(n \div LimbBase)

RECURSIVE BigToNat(_)
BigToNat(a) ==
    IF a = <<>> THEN 0 ELSE Head(a) + LimbBase * BigToNat(Tail(a))

RECURSIVE BigNorm(_)
BigNorm(a) ==
    IF a # <<>> /\ a[Len(a)] = 0 THEN BigNorm(SubSeq(a, 1, Len(a) - 1)) ELSE a

Limb(a, i) == IF i >= 1 /\ i <= Len(a) THEN a[i] ELSE 0

RECURSIVE BigCarry(_, _)
BigCarry(a, c) ==
    IF a = <<>> THEN BigFromNat(c)
    ELSE <<(Head(a) + c) % LimbBase>> \o BigCarry(Tail(a), (Head(a) + c) \div LimbBase)

BigAdd(a, b) ==
    BigNorm(BigCarry([i \in 1..Max(Len(a), Len(b)) |-> Limb(a, i) + Limb(b, i)], 0))

RECURSIVE BigBorrow(_, _, _)
BigBorrow(a, b, br) ==
    IF a = <<>> THEN <<>>
    ELSE LET d == Head(a) - (IF b = <<>> THEN 0 ELSE Head(b)) - br
         IN  <<d % LimbBase>>
             \o BigBorrow(Tail(a), IF b = <<>> THEN <<>> ELSE Tail(b),
                          IF d < 0 THEN 1 ELSE 0)

\* a - b for a >= b
BigSub(a, b) == BigNorm(BigBorrow(a, b, 0))

RECURSIVE BigLessFrom(_, _, _)
BigLessFrom(a, b, i) ==
    IF i = 0 THEN FALSE
    ELSE IF a[i] # b[i] THEN a[i] < b[i]
    ELSE BigLessFrom(a, b, i - 1)

\* a < b for normalised a, b
BigLess(a, b) ==
    IF Len(a) # Len(b) THEN Len(a) < Len(b) ELSE BigLessFrom(a, b, Len(a))

BigMulSmall(a, s) == BigNorm(BigCarry([i \in 1..Len(a) |-> a[i] * s], 0))

RECURSIVE BigColumn(_, _, _, _)
BigColumn(a, b, k, i) ==
    IF i > Len(a) THEN 0
    ELSE a[i] * Limb(b, k + 1 - i) + BigColumn(a, b, k, i + 1)

BigMul(a, b) ==
    IF a = <<>> \/ b = <<>> THEN <<>>
    ELSE BigNorm(BigCarry([k \in 1..(Len(a) + Len(b) - 1) |-> BigColumn(a, b, k, 1)], 0))

RECURSIVE BigDivFrom(_, _, _, _)
BigDivFrom(a, d, i, r) ==
    IF i = 0 THEN [q |-> <<>>, r |-> r]
    ELSE LET cur  == r * LimbBase + a[i]
             rest == BigDivFrom(a, d, i - 1, cur % d)
         IN  [q |-> Append(rest.q, cur \div d), r |-> rest.r]

\* quotient and remainder of a by a small divisor d
BigDivSmall(a, d) ==
    LET x == BigDivFrom(a, d, Len(a), 0) IN [q |-> BigNorm(x.q), r |-> x.r]

BigShl(a, n) ==
    IF a = <<>> THEN <<>>
    ELSE BigMulSmall([i \in 1..(n \div LimbBits) |-> 0] \o a, 2 ^ (n % LimbBits))

BigShr(a, n) ==
    IF n \div LimbBits >= Len(a) THEN <<>>
    ELSE BigDivSmall(SubSeq(a, (n \div LimbBits) + 1, Len(a)), 2 ^ (n % LimbBits)).q

\* some bit among the n lowest bits of a is set
BigLowNonzero(a, n) ==
    \/ \E i \in 1..Min(n \div LimbBits, Len(a)) : a[i] # 0
    \/ Limb(a, (n \div LimbBits) + 1) % (2 ^ (n % LimbBits)) # 0

BigOdd(a) == Limb(a, 1) % 2 = 1

BigBitLen(a) ==
    IF a = <<>> THEN 0
    ELSE LimbBits * (Len(a) - 1)
         + (CHOOSE k \in 1..LimbBits : 2 ^ (k - 1) <= a[Len(a)] /\ a[Len(a)] < 2 ^ k)

NumZero == [sgn |-> 0, man |-> <<>>, exp |-> 0]

\* the Number sgn * q * 2^e, q raised by one when the guard bit is set and
\* the discarded rest is above one half, or exactly one half with q odd
RoundHalfEven(sgn, q, e, guard, sticky) ==
    [sgn |-> sgn,
     man |-> IF guard /\ (sticky \/ BigOdd(q)) THEN BigAdd(q, <<1>>) ELSE q,
     exp |-> e]

\* q2 carries the guard bit as its lowest bit
RoundGuard(sgn, q2, e, sticky) ==
    RoundHalfEven(sgn, BigShr(q2, 1), e, BigOdd(q2), sticky)

\* drop the s lowest bits of n
RoundShift(sgn, n, e, sticky, s) ==
    RoundGuard(sgn, BigShr(n, s - 1), e + s, sticky \/ BigLowNonzero(n, s - 1))

\* round sgn * n * 2^e (plus a sticky remainder below n's last bit) to binary64
Round53(sgn, n, e, sticky) ==
    IF BigBitLen(n) <= SignificandBits THEN [sgn |-> sgn, man |-> n, exp |-> e]
    ELSE RoundShift(sgn, n, e, sticky, BigBitLen(n) - SignificandBits)

\* an integer-valued Number (card.damage, heat, the literal 1)
NumFromInt(n) == [sgn |-> Sign(n), man |-> BigFromNat(Abs(n)), exp |-> 0]

RoundQuotient(sgn, d, e) == Round53(sgn, d.q, e, d.r # 0)

\* heat / 100 for an integer heat
NumDiv100(a) ==
    IF a = 0 THEN NumZero
    ELSE RoundQuotient(Sign(a),
                       BigDivSmall(BigShl(BigFromNat(Abs(a)), 5 * LimbBits), 100),
                       -(5 * LimbBits))

NumMul(x, y) ==
    IF x.sgn = 0 \/ y.sgn = 0 THEN NumZero
    ELSE Round53(x.sgn * y.sgn, BigMul(x.man, y.man), x.exp + y.exp, FALSE)

\* xs * xm * 2^e + ys * ym * 2^e for nonzero signs xs, ys
AddAligned(xs, xm, ys, ym, e) ==
    IF xs # ys /\ xm = ym THEN NumZero
    ELSE Round53(IF xs # ys /\ BigLess(xm, ym) THEN ys ELSE xs,
                 IF xs = ys THEN BigAdd(xm, ym)
                 ELSE IF BigLess(xm, ym) THEN BigSub(ym, xm)
                 ELSE BigSub(xm, ym),
                 e, FALSE)

AddAt(x, y, e) ==
    AddAligned(x.sgn, BigShl(x.man, x.exp - e), y.sgn, BigShl(y.man, y.exp - e), e)

NumAdd(x, y) ==
    IF x.sgn = 0 THEN y
    ELSE IF y.sgn = 0 THEN x
    ELSE AddAt(x, y, Min(x.exp, y.exp))

NumSub(x, y) == NumAdd(x, [y EXCEPT !.sgn = -y.sgn])

\* a variant without the Math.max: Math.floor(x) alone
NumFloor_NoMax(x) ==
    IF x.sgn = 0 THEN 0
    ELSE IF x.exp >= 0 THEN x.sgn * BigToNat(BigShl(x.man, x.exp))
    ELSE IF x.sgn > 0 THEN BigToNat(BigShr(x.man, -x.exp))
    ELSE -(BigToNat(BigShr(x.man, -x.exp))
             + (IF BigLowNonzero(x.man, -x.exp) THEN 1 ELSE 0))

\* Math.max(0, Math.floor(x)) as an integer
NumFloorMax0(x) ==
    IF x.sgn <= 0 THEN 0
    ELSE IF x.exp >= 0 THEN BigToNat(BigShl(x.man, x.exp))
    ELSE BigToNat(BigShr(x.man, -x.exp))

\* line 226: player.heat / 100
AttackMultiplier(heat) == NumDiv100(heat)

\* line 230: 1 - heat / 100
DefenseMultiplier(refHeat) == NumSub(NumFromInt(1), NumDiv100(refHeat))

\* the multipliers of the heats of magnitude up to TabledHeat, computed once
TabledHeat == 400

AttackMultipliers == [h \in (-TabledHeat)..TabledHeat |-> AttackMultiplier(h)]

DefenseMultipliers == [h \in (-TabledHeat)..TabledHeat |-> DefenseMultiplier(h)]

AttackMultiplierOf(heat) ==
    IF heat \in DOMAIN AttackMultipliers THEN AttackMultipliers[heat]
    ELSE AttackMultiplier(heat)

DefenseMultiplierOf(refHeat) ==
    IF refHeat \in DOMAIN DefenseMultipliers THEN DefenseMultipliers[refHeat]
    ELSE DefenseMultiplier(refHeat)

\* lines 226-236: finalDamage for card.damage, the striker's heat and the
\* heat the defense multiplier reads
FinalDamage(damage, heat, refHeat) ==
    NumFloorMax0(NumMul(NumMul(NumFromInt(damage), AttackMultiplierOf(heat)),
                        DefenseMultiplierOf(refHeat)))

(***************************************************************************)
(* Cards and decks.  A card is the flat record of the deck format; a field  *)
(* the deck leaves out is 0 (undefined and 0 are both falsy in the tests    *)
(* `if (card.heatChange)`, `if (card.damage ...)`, `if (card.heal)`).       *)
(***************************************************************************)
Card(name, type, damage, heatChange, heal) ==
    [name |-> name, type |-> type, damage |-> damage,
     heatChange |-> heatChange, heal |-> heal]

\* exampleCards, lines 336-341
Heavy == Card("heavy", "attack", 25, 30, 0)

Quick == Card("quick", "attack", 10, 10, 0)

Block == Card("block", "defense", 0, -20, 0)

Cool == Card("cool", "defense", 0, -40, 0)

\* further caller-supplied cards: a hot attack, a lethal attack, and a
\* defense card that heals and carries a damage field
Overdrive == Card("overdrive", "attack", 30, 60, 0)

Nuke == Card("nuke", "attack", 600, 30, 0)

Mend == Card("mend", "defense", 15, 0, 30)

\* undefined / null where the code expects a card
NoCard == Card("", "none", 0, 0, 0)

CardPool == <<Overdrive, Overdrive, Nuke, Mend, Heavy, Block, Quick, Cool>>

\* cards per deck
DeckLen == 3

\* direct startTurn calls by the caller after the one that begins the game
MaxExtraStarts == 2

\* play calls in a game in which the caller also starts turns itself
MaxCallerPlays == 3

\* a deck: DeckLen consecutive cards of the pool, starting at card k
Deck(k) == [i \in 1..DeckLen |-> CardPool[((k + i - 2) % Len(CardPool)) + 1]]

Decks == {Deck(k) : k \in 1..Len(CardPool)}

\* a deck that cools its side down before its strong attack card comes up
CoolingDeck ==
    [i \in 1..DeckLen |-> <<Cool, Nuke, Quick, Block>>[((i - 1) % 4) + 1]]

Sides == {"p1", "p2"}

Modes == {"classic", "simultaneous"}

\* hand indices a caller passes for a hand (0-based as in the code): every
\* position of the hand, and the first position past its end
Indices(hand) == 0..Len(hand)

InitialHp == 100

HpCap == 100

OverheatLimit == 100

InsertThreshold == 50

VARIABLES
    players,      \* state.players: side -> [hp, heat, skipped, hand, deck, selectedCard]
    turn,         \* state.turn
    phase,        \* state.phase
    mode,         \* state.mode
    log,          \* state.log
    pending,      \* number of startTurn continuations scheduled by setTimeout, not yet run
    directCalls,  \* number of startTurn calls made by the caller itself
    call,         \* history: the last entry point called, its arguments and its error
    pre,          \* history: the engine state when that call began
    trace,        \* history: the internal calls that call made, in order
    everDead,     \* history: some side's hp has been <= 0 after some effect application
    overSeen,     \* history: some _endTurn has found the game over
    played        \* history: side -> number of its play calls that did not throw

vars == <<players, turn, phase, mode, log, pending, directCalls, call, pre, trace,
          everDead, overSeen, played>>

\* the engine state a handler works on; trace and error are bookkeeping
Engine == [players |-> players, turn |-> turn, phase |-> phase, log |-> log,
           pending |-> pending, trace |-> <<>>, error |-> "none"]

\* what of the engine state an observer (or the next call) can see
View(s) == [players |-> s.players, turn |-> s.turn, phase |-> s.phase,
            log |-> s.log, pending |-> s.pending]

Traced(s, rec) == [s EXCEPT !.trace = Append(@, rec)]

_log(s, message) == [s EXCEPT !.log = Append(@, message)]

_getOpponent(playerId) == IF playerId = "p1" THEN "p2" ELSE "p1"

\* a variant that puts the drawn card at the front of the hand
_drawCard_Front(s, playerId) ==
    LET player == s.players[playerId]
        card   == Head(player.deck)
    IN  IF Len(player.deck) > 0
        THEN _log([s EXCEPT !.players[playerId].deck = Tail(@),
                            !.players[playerId].hand = <<card>> \o @],
                  <<"draw", playerId, card.name>>)
        ELSE s

\* a variant that reads the front card and leaves it on the deck
_drawCard_KeepsDeck(s, playerId) ==
    LET player == s.players[playerId]
        card   == Head(player.deck)
    IN  IF Len(player.deck) > 0
        THEN _log([s EXCEPT !.players[playerId].hand = Append(@, card)],
                  <<"draw", playerId, card.name>>)
        ELSE s

_drawCard(s, playerId) ==
    LET player == s.players[playerId]
        card   == Head(player.deck)
    IN  IF Len(player.deck) > 0
        THEN _log([s EXCEPT !.players[playerId].deck = Tail(@),
                            !.players[playerId].hand = Append(@, card)],
                  <<"draw", playerId, card.name>>)
        ELSE s

_findAttackCard(s, playerId) ==
    LET hand == s.players[playerId].hand
        hits == {i \in 1..Len(hand) : hand[i].type = "attack"}
    IN  IF hits = {} THEN NoCard
        ELSE hand[CHOOSE i \in hits : \A j \in hits : i <= j]

\* lines 217-221
ApplyHeatChange(s, playerId, card) ==
    IF card.heatChange # 0
    THEN LET s1 == [s EXCEPT !.players[playerId].heat = @ + card.heatChange]
         IN  _log(s1, <<"heat", playerId, card.heatChange, s1.players[playerId].heat>>)
    ELSE s

\* the heat the defense multiplier reads, line 230
DefenseHeat(s, playerId, isInsertAttack) ==
    IF isInsertAttack THEN s.players[_getOpponent(playerId)].heat
    ELSE s.players[playerId].heat

\* lines 237-239
DealDamage(s, playerId, opponentId, card, finalDamage) ==
    _log([s EXCEPT !.players[opponentId].hp = @ - finalDamage],
         <<"damage", playerId, opponentId, finalDamage, card.damage>>)

\* lines 223-240
ApplyDamage(s, playerId, card, isInsertAttack) ==
    IF card.damage # 0 /\ card.type = "attack"
    THEN DealDamage(s, playerId, _getOpponent(playerId), card,
                    FinalDamage(card.damage, s.players[playerId].heat,
                                DefenseHeat(s, playerId, isInsertAttack)))
    ELSE s

\* a variant that adds the heal without the cap
ApplyHeal_NoClamp(s, playerId, card) ==
    IF card.heal # 0
    THEN LET s1 == [s EXCEPT !.players[playerId].hp = @ + card.heal]
         IN  _log(s1, <<"heal", playerId, card.heal, s1.players[playerId].hp>>)
    ELSE s

\* lines 242-246
ApplyHeal(s, playerId, card) ==
    IF card.heal # 0
    THEN LET s1 == [s EXCEPT !.players[playerId].hp = Min(HpCap, @ + card.heal)]
         IN  _log(s1, <<"heal", playerId, card.heal, s1.players[playerId].hp>>)
    ELSE s

_applyCardEffects(s, playerId, card, isInsertAttack) ==
    LET s1 == ApplyHeatChange(s, playerId, card)
        s2 == ApplyDamage(s1, playerId, card, isInsertAttack)
        s3 == ApplyHeal(s2, playerId, card)
    IN  Traced(s3, [fn |-> "_applyCardEffects", side |-> playerId, card |-> card,
                    insert |-> isInsertAttack, before |-> s.players,
                    mid |-> s2.players, after |-> s3.players, result |-> "none"])

\* a variant that flags the side and leaves its heat as it is
_checkOverheat_NoReset(s, playerId) ==
    LET s1 == IF s.players[playerId].heat > OverheatLimit
              THEN [_log(s, <<"overheat", playerId>>)
                      EXCEPT !.players[playerId].skipped = TRUE]
              ELSE s
    IN  Traced(s1, [fn |-> "_checkOverheat", side |-> playerId, card |-> NoCard,
                    insert |-> FALSE, before |-> s.players, mid |-> s.players,
                    after |-> s1.players, result |-> "none"])

_checkOverheat(s, playerId) ==
    LET s1 == IF s.players[playerId].heat > OverheatLimit
              THEN [_log(s, <<"overheat", playerId>>)
                      EXCEPT !.players[playerId].skipped = TRUE,
                             !.players[playerId].heat = 0]
              ELSE s
    IN  Traced(s1, [fn |-> "_checkOverheat", side |-> playerId, card |-> NoCard,
                    insert |-> FALSE, before |-> s.players, mid |-> s.players,
                    after |-> s1.players, result |-> "none"])

\* the insert check has run from s to r
InsertChecked(s, r, attacker, defender) ==
    Traced(r, [fn |-> "_checkInsertTurn", side |-> defender, card |-> NoCard,
               insert |-> FALSE, before |-> s.players, mid |-> s.players,
               after |-> r.players, result |-> attacker])

\* lines 197-205: the bonus attack with the defender's first attack card
InsertAttack(s, defender, heatDiff) ==
    IF _findAttackCard(s, defender) # NoCard
    THEN _applyCardEffects(
             _log(_log(s, <<"insert", defender, heatDiff>>),
                  <<"insertAttack", defender, _findAttackCard(s, defender).name>>),
             defender, _findAttackCard(s, defender), TRUE)
    ELSE _log(s, <<"insert", defender, heatDiff>>)

\* a variant that also fires at a heat difference of exactly the threshold
_checkInsertTurn_AtLeast(s, attacker, defender) ==
    LET heatDiff == s.players[attacker].heat - s.players[defender].heat
        r        == IF heatDiff >= InsertThreshold
                    THEN InsertAttack(s, defender, heatDiff)
                    ELSE s
    IN  InsertChecked(s, r, attacker, defender)

\* a variant that takes the insert card out of the hand, as a normal play does
_checkInsertTurn_ConsumesCard(s, attacker, defender) ==
    LET heatDiff == s.players[attacker].heat - s.players[defender].heat
        hand     == s.players[defender].hand
        r        == IF heatDiff > InsertThreshold
                    THEN InsertAttack(s, defender, heatDiff)
                    ELSE s
        at       == CHOOSE i \in 1..Len(hand) : hand[i].type = "attack"
        r1       == IF r.trace # s.trace
                    THEN [r EXCEPT !.players[defender].hand =
                                       SubSeq(hand, 1, at - 1) \o SubSeq(hand, at + 1, Len(hand))]
                    ELSE r
    IN  InsertChecked(s, r1, attacker, defender)

_checkInsertTurn(s, attacker, defender) ==
    LET heatDiff == s.players[attacker].heat - s.players[defender].heat
        r        == IF heatDiff > InsertThreshold
                    THEN InsertAttack(s, defender, heatDiff)
                    ELSE s
    IN  InsertChecked(s, r, attacker, defender)

\* a variant that looks at p2's hp first
_checkGameOver_P2First(s) ==
    IF s.players["p2"].hp <= 0 THEN "p1"
    ELSE IF s.players["p1"].hp <= 0 THEN "p2"
    ELSE "none"

\* the winner _checkGameOver reports, "none" when it returns false
_checkGameOver(s) ==
    IF s.players["p1"].hp <= 0 THEN "p2"
    ELSE IF s.players["p2"].hp <= 0 THEN "p1"
    ELSE "none"

\* a variant without the early return: the next turn is scheduled in any case
_endTurn_AlwaysSchedules(s) ==
    LET s1     == [_log(s, <<"turnEnd", s.turn>>)
                     EXCEPT !.turn = IF s.turn = "p1" THEN "p2" ELSE "p1",
                            !.phase = "end"]
        winner == _checkGameOver(s1)
        s2     == IF winner # "none"
                  THEN _log(_log(s1, <<"wins", winner>>), <<"gameOver">>)
                  ELSE s1
    IN  Traced([s2 EXCEPT !.pending = @ + 1],
               [fn |-> "_endTurn", side |-> s.turn, card |-> NoCard,
                insert |-> FALSE, before |-> s.players, mid |-> s.players,
                after |-> s2.players, result |-> winner])

_endTurn(s) ==
    LET s1     == [_log(s, <<"turnEnd", s.turn>>)
                     EXCEPT !.turn = IF s.turn = "p1" THEN "p2" ELSE "p1",
                            !.phase = "end"]
        winner == _checkGameOver(s1)
        s2     == IF winner # "none"
                  THEN _log(_log(s1, <<"wins", winner>>), <<"gameOver">>)
                  ELSE [s1 EXCEPT !.pending = @ + 1]
    IN  Traced(s2, [fn |-> "_endTurn", side |-> s.turn, card |-> NoCard,
                    insert |-> FALSE, before |-> s.players, mid |-> s.players,
                    after |-> s2.players, result |-> winner])

\* a variant that checks the active side for overheat and forgets the other
_resolveTurn_ChecksActiveOnly(s) ==
    LET activePlayer == s.turn
        opponent     == _getOpponent(activePlayer)
    IN  _endTurn(_checkOverheat(_checkInsertTurn(s, activePlayer, opponent), activePlayer))

_resolveTurn(s) ==
    LET activePlayer == s.turn
        opponent     == _getOpponent(activePlayer)
    IN  _endTurn(_checkOverheat(_checkOverheat(
            _checkInsertTurn(s, activePlayer, opponent), activePlayer), opponent))

\* a variant that leaves the two selections in their slots
_resolveSimultaneousTurn_KeepsSlots(s) ==
    LET p1Card == s.players["p1"].selectedCard
        p2Card == s.players["p2"].selectedCard
        s0     == _log(s, <<"reveal", p1Card.name, p2Card.name>>)
        both(x, tag) == _applyCardEffects(_applyCardEffects(_log(x, <<tag>>), "p1", p1Card, FALSE),
                                          "p2", p2Card, FALSE)
        s1     == IF p1Card.type = "attack" /\ p2Card.type = "attack"
                  THEN both(s0, "attackAttack")
                  ELSE IF p1Card.type = "attack" /\ p2Card.type = "defense"
                  THEN _checkInsertTurn(both(s0, "attackDefense"), "p1", "p2")
                  ELSE IF p1Card.type = "defense" /\ p2Card.type = "attack"
                  THEN _checkInsertTurn(both(s0, "defenseAttack"), "p2", "p1")
                  ELSE both(s0, "defenseDefense")
    IN  _endTurn(_checkOverheat(_checkOverheat(s1, "p1"), "p2"))

\* a variant that runs the insert check for two attack cards as well
_resolveSimultaneousTurn_InsertOnAttacks(s) ==
    LET p1Card == s.players["p1"].selectedCard
        p2Card == s.players["p2"].selectedCard
        s0     == _log(s, <<"reveal", p1Card.name, p2Card.name>>)
        both(x, tag) == _applyCardEffects(_applyCardEffects(_log(x, <<tag>>), "p1", p1Card, FALSE),
                                          "p2", p2Card, FALSE)
        s1     == IF p1Card.type = "attack" /\ p2Card.type \in {"attack", "defense"}
                  THEN _checkInsertTurn(both(s0, "attackDefense"), "p1", "p2")
                  ELSE IF p1Card.type = "defense" /\ p2Card.type = "attack"
                  THEN _checkInsertTurn(both(s0, "defenseAttack"), "p2", "p1")
                  ELSE both(s0, "defenseDefense")
        s2     == [s1 EXCEPT !.players["p1"].selectedCard = NoCard,
                             !.players["p2"].selectedCard = NoCard]
    IN  _endTurn(_checkOverheat(_checkOverheat(s2, "p1"), "p2"))

_resolveSimultaneousTurn(s) ==
    LET p1Card == s.players["p1"].selectedCard
        p2Card == s.players["p2"].selectedCard
        s0     == _log(s, <<"reveal", p1Card.name, p2Card.name>>)
        both(x, tag) == _applyCardEffects(_applyCardEffects(_log(x, <<tag>>), "p1", p1Card, FALSE),
                                          "p2", p2Card, FALSE)
        s1     == IF p1Card.type = "attack" /\ p2Card.type = "attack"
                  THEN both(s0, "attackAttack")
                  ELSE IF p1Card.type = "attack" /\ p2Card.type = "defense"
                  THEN _checkInsertTurn(both(s0, "attackDefense"), "p1", "p2")
                  ELSE IF p1Card.type = "defense" /\ p2Card.type = "attack"
                  THEN _checkInsertTurn(both(s0, "defenseAttack"), "p2", "p1")
                  ELSE both(s0, "defenseDefense")
        s2     == [s1 EXCEPT !.players["p1"].selectedCard = NoCard,
                             !.players["p2"].selectedCard = NoCard]
    IN  _endTurn(_checkOverheat(_checkOverheat(s2, "p1"), "p2"))

\* a variant whose skip path returns without ending the turn
startTurn_SkipStops(s) ==
    LET activePlayer == s.turn
        opponent     == IF activePlayer = "p1" THEN "p2" ELSE "p1"
        s0           == [s EXCEPT !.phase = "start"]
    IN  IF s0.players[activePlayer].skipped
        THEN [_log(s0, <<"skip", activePlayer>>)
                EXCEPT !.players[activePlayer].skipped = FALSE]
        ELSE [_log(_drawCard(_drawCard(s0, activePlayer), opponent),
                   <<"turnStart", activePlayer>>)
                EXCEPT !.phase = "action"]

\* a variant that draws before it looks at the skipped flag
startTurn_DrawsFirst(s) ==
    LET activePlayer == s.turn
        opponent     == IF activePlayer = "p1" THEN "p2" ELSE "p1"
        s0           == _drawCard(_drawCard([s EXCEPT !.phase = "start"], activePlayer), opponent)
    IN  IF s0.players[activePlayer].skipped
        THEN _endTurn([_log(s0, <<"skip", activePlayer>>)
                         EXCEPT !.players[activePlayer].skipped = FALSE])
        ELSE [_log(s0, <<"turnStart", activePlayer>>) EXCEPT !.phase = "action"]

startTurn(s) ==
    LET activePlayer == s.turn
        opponent     == IF activePlayer = "p1" THEN "p2" ELSE "p1"
        s0           == [s EXCEPT !.phase = "start"]
    IN  IF s0.players[activePlayer].skipped
        THEN _endTurn([_log(s0, <<"skip", activePlayer>>)
                         EXCEPT !.players[activePlayer].skipped = FALSE])
        ELSE [_log(_drawCard(_drawCard(s0, activePlayer), opponent),
                   <<"turnStart", activePlayer>>)
                EXCEPT !.phase = "action"]

\* hand[cardIndex] exists (cardIndex counts from 0)
HasCard(s, playerId, cardIndex) ==
    cardIndex >= 0 /\ cardIndex < Len(s.players[playerId].hand)

\* hand.splice(cardIndex, 1)
Splice(hand, cardIndex) ==
    SubSeq(hand, 1, cardIndex) \o SubSeq(hand, cardIndex + 2, Len(hand))

\* a variant that resolves the turn on any play made in phase 'defense'
PlayCardPhase_AnyoneResolves(s, playerId) ==
    IF s.phase = "action" /\ playerId = s.turn
    THEN _log([s EXCEPT !.phase = "defense"], <<"defend", _getOpponent(playerId)>>)
    ELSE IF s.phase = "defense"
    THEN _resolveTurn(s)
    ELSE s

\* lines 80-88: the phase rule after the card's effects
PlayCardPhase(s, playerId) ==
    IF s.phase = "action" /\ playerId = s.turn
    THEN _log([s EXCEPT !.phase = "defense"], <<"defend", _getOpponent(playerId)>>)
    ELSE IF s.phase = "defense" /\ playerId # s.turn
    THEN _resolveTurn(s)
    ELSE s

\* a variant without the mode check
playCard_NoModeCheck(s, playerId, cardIndex) ==
    IF ~HasCard(s, playerId, cardIndex) THEN [s EXCEPT !.error = "card"]
    ELSE LET card == s.players[playerId].hand[cardIndex + 1]
             s1   == [s EXCEPT !.players[playerId].hand = Splice(@, cardIndex)]
             s2   == _log(s1, <<"play", playerId, card.name>>)
         IN  PlayCardPhase(_applyCardEffects(s2, playerId, card, FALSE), playerId)

\* a variant that logs the play before it looks for the card
playCard_LogsFirst(s, playerId, cardIndex) ==
    IF mode # "classic" THEN [s EXCEPT !.error = "mode"]
    ELSE IF ~HasCard(s, playerId, cardIndex)
    THEN [_log(s, <<"play", playerId, "">>) EXCEPT !.error = "card"]
    ELSE LET card == s.players[playerId].hand[cardIndex + 1]
             s1   == [s EXCEPT !.players[playerId].hand = Splice(@, cardIndex)]
             s2   == _log(s1, <<"play", playerId, card.name>>)
         IN  PlayCardPhase(_applyCardEffects(s2, playerId, card, FALSE), playerId)

playCard(s, playerId, cardIndex) ==
    IF mode # "classic" THEN [s EXCEPT !.error = "mode"]
    ELSE IF ~HasCard(s, playerId, cardIndex) THEN [s EXCEPT !.error = "card"]
    ELSE LET card == s.players[playerId].hand[cardIndex + 1]
             s1   == [s EXCEPT !.players[playerId].hand = Splice(@, cardIndex)]
             s2   == _log(s1, <<"play", playerId, card.name>>)
         IN  PlayCardPhase(_applyCardEffects(s2, playerId, card, FALSE), playerId)

\* a variant that stores the selection and leaves the card in the hand
playCardSimultaneous_KeepsCard(s, playerId, cardIndex) ==
    IF mode # "simultaneous" THEN [s EXCEPT !.error = "mode"]
    ELSE IF ~HasCard(s, playerId, cardIndex) THEN [s EXCEPT !.error = "card"]
    ELSE LET card == s.players[playerId].hand[cardIndex + 1]
             s1   == [s EXCEPT !.players[playerId].selectedCard = card]
             s2   == _log(s1, <<"select", playerId>>)
         IN  IF s2.players["p1"].selectedCard # NoCard
                /\ s2.players["p2"].selectedCard # NoCard
             THEN _resolveSimultaneousTurn(s2)
             ELSE s2

playCardSimultaneous(s, playerId, cardIndex) ==
    IF mode # "simultaneous" THEN [s EXCEPT !.error = "mode"]
    ELSE IF ~HasCard(s, playerId, cardIndex) THEN [s EXCEPT !.error = "card"]
    ELSE LET card == s.players[playerId].hand[cardIndex + 1]
             s1   == [s EXCEPT !.players[playerId].selectedCard = card,
                               !.players[playerId].hand = Splice(@, cardIndex)]
             s2   == _log(s1, <<"select", playerId>>)
         IN  IF s2.players["p1"].selectedCard # NoCard
                /\ s2.players["p2"].selectedCard # NoCard
             THEN _resolveSimultaneousTurn(s2)
             ELSE s2

(***************************************************************************)
(* The state machine: the constructor, then calls of the entry points by    *)
(* the caller and by the timer, each handler running to completion.         *)
(***************************************************************************)
NewPlayer(deck) ==
    [hp |-> InitialHp, heat |-> 0, skipped |-> FALSE, hand |-> <<>>,
     deck |-> deck, selectedCard |-> NoCard]

Called(op, playerId, cardIndex, by, error) ==
    [op |-> op, playerId |-> playerId, cardIndex |-> cardIndex, by |-> by,
     error |-> error]

\* new HeatDuelGame(game[1], game[2], mode) for a game of the set and a mode
Constructed(games) ==
    /\ \E game \in games :
          players = [p \in Sides |-> NewPlayer(IF p = "p1" THEN game[1] ELSE game[2])]
    /\ turn = "p1"
    /\ phase = "start"
    /\ mode \in Modes
    /\ log = <<<<"init", mode>>>>
    /\ pending = 0
    /\ directCalls = 0
    /\ call = Called("constructor", "-", -1, "caller", "none")
    /\ pre = [players |-> players, turn |-> turn, phase |-> phase, log |-> log,
              pending |-> pending]
    /\ trace = <<>>
    /\ everDead = FALSE
    /\ overSeen = FALSE
    /\ played = [p \in Sides |-> 0]

Init == Constructed(Decks \X Decks)

\* some record of the trace shows a side with hp <= 0
ShowsDead(tr) ==
    \E i \in 1..Len(tr), p \in Sides :
        tr[i].mid[p].hp <= 0 \/ tr[i].after[p].hp <= 0

ShowsOver(tr) ==
    \E i \in 1..Len(tr) : tr[i].fn = "_endTurn" /\ tr[i].result # "none"

\* the handler has run from Engine to s
Finish(s, op, playerId, cardIndex, by) ==
    /\ players' = s.players
    /\ turn' = s.turn
    /\ phase' = s.phase
    /\ log' = s.log
    /\ pending' = s.pending
    /\ trace' = s.trace
    /\ call' = Called(op, playerId, cardIndex, by, s.error)
    /\ pre' = View(Engine)
    /\ everDead' = (everDead \/ ShowsDead(s.trace))
    /\ overSeen' = (overSeen \/ ShowsOver(s.trace))
    /\ played' = IF playerId \in Sides /\ s.error = "none"
                 THEN [played EXCEPT ![playerId] = @ + 1]
                 ELSE played
    /\ mode' = mode

\* line 351: the caller begins the game
StartGame ==
    /\ directCalls = 0
    /\ directCalls' = 1
    /\ Finish(startTurn(Engine), "startTurn", "-", -1, "caller")

\* line 281: a scheduled continuation runs
TimerFires ==
    /\ pending > 0
    /\ UNCHANGED directCalls
    /\ Finish(startTurn([Engine EXCEPT !.pending = @ - 1]), "startTurn", "-", -1, "timer")

PlayCard(playerId, cardIndex) ==
    /\ UNCHANGED directCalls
    /\ Finish(playCard(Engine, playerId, cardIndex), "playCard", playerId, cardIndex, "caller")

PlayCardSimultaneous(playerId, cardIndex) ==
    /\ UNCHANGED directCalls
    /\ Finish(playCardSimultaneous(Engine, playerId, cardIndex),
              "playCardSimultaneous", playerId, cardIndex, "caller")

\* the caller calls the public startTurn again by itself
CallerStartsTurn ==
    /\ directCalls >= 1
    /\ directCalls < 1 + MaxExtraStarts
    /\ directCalls' = directCalls + 1
    /\ Finish(startTurn(Engine), "startTurn", "-", -1, "caller")

Next ==
    \/ StartGame
    \/ TimerFires
    \/ \E playerId \in Sides : \E cardIndex \in Indices(players[playerId].hand) :
          PlayCard(playerId, cardIndex)
    \/ \E playerId \in Sides : \E cardIndex \in Indices(players[playerId].hand) :
          PlayCardSimultaneous(playerId, cardIndex)

\* the caller starts the game once; afterwards only the timer starts turns
Spec == Init /\ [][Next]_vars

\* line 281: the timer runs every continuation it was given
SpecFair == Spec /\ WF_vars(TimerFires)

\* the games (p1's deck, p2's deck) in which the caller also starts turns itself
CallerGames ==
    {<<Deck(5), Deck(5)>>, <<Deck(1), Deck(4)>>, <<Deck(4), Deck(1)>>,
     <<Deck(1), CoolingDeck>>}

InitCaller == Constructed(CallerGames)

\* a caller that uses the play method of the game's mode with an index of the hand
CallerPlays ==
    /\ played["p1"] + played["p2"] < MaxCallerPlays
    /\ \E playerId \in Sides : \E cardIndex \in 0..(Len(players[playerId].hand) - 1) :
          \/ mode = "classic" /\ PlayCard(playerId, cardIndex)
          \/ mode = "simultaneous" /\ PlayCardSimultaneous(playerId, cardIndex)

NextCaller ==
    \/ StartGame
    \/ TimerFires
    \/ CallerStartsTurn
    \/ CallerPlays

\* the caller may also call startTurn itself, up to MaxExtraStarts more times
SpecCaller == InitCaller /\ [][NextCaller]_vars

(***************************************************************************)
(* Properties.  They read the history variables: call (the last entry point *)
(* called), pre (the engine state when it was called) and trace (the       *)
(* internal calls it made, each with the players before and after it).      *)
(***************************************************************************)
Observed == [players |-> players, turn |-> turn, phase |-> phase, log |-> log,
             pending |-> pending]

\* continuations pending when the last handler began its own work
PendingBefore == pre.pending - (IF call.by = "timer" THEN 1 ELSE 0)

TraceOf(fn) == {i \in 1..Len(trace) : trace[i].fn = fn}

FirstOf(S) == CHOOSE i \in S : \A j \in S : i <= j

IsPlay == call.op \in {"playCard", "playCardSimultaneous"}

\* the last call ran a full turn resolution
Resolved == TraceOf("_checkOverheat") # {}

\* the players just before the overheat checks of that resolution
BeforeOverheat == trace[FirstOf(TraceOf("_checkOverheat"))].before

\* C1: after a full turn resolution (classic or simultaneous) the phase is
\* 'end' and both sides have heat <= 100; a side whose heat was > 100 just
\* before the overheat check is skipped with heat 0, and a side whose heat was
\* <= 100 has the heat and the skipped flag it had before the check.
C1_OverheatAfterResolution ==
    Resolved =>
        /\ IsPlay
        /\ phase = "end"
        /\ \A p \in Sides :
              /\ players[p].heat <= OverheatLimit
              /\ IF BeforeOverheat[p].heat > OverheatLimit
                 THEN players[p].skipped /\ players[p].heat = 0
                 ELSE /\ players[p].heat = BeforeOverheat[p].heat
                      /\ players[p].skipped = BeforeOverheat[p].skipped

C1_Witness ==
    /\ Resolved
    /\ \E p \in Sides :
          /\ BeforeOverheat[p].heat > OverheatLimit
          /\ BeforeOverheat[_getOpponent(p)].heat <= OverheatLimit
          /\ BeforeOverheat[_getOpponent(p)].heat # 0

\* C2: with the caller starting the game once, at most one startTurn
\* continuation is pending at any time, in either mode and whatever play calls
\* are made in whatever phase; a handler runs _endTurn at most once, and only
\* when no continuation is pending.
C2_OneContinuation ==
    /\ pending <= 1
    /\ TraceOf("_endTurn") # {} =>
          Cardinality(TraceOf("_endTurn")) = 1 /\ PendingBefore = 0

C2_Witness ==
    /\ mode = "simultaneous"
    /\ call.op = "playCardSimultaneous"
    /\ pre.pending = 1
    /\ pending = 1

C4_TerminalOnceDead == ~(everDead /\ call.op = "startTurn" /\ phase = "action")

WrongMode ==
    \/ call.op = "playCard" /\ mode # "classic"
    \/ call.op = "playCardSimultaneous" /\ mode # "simultaneous"

\* C5: a play method called in the wrong mode fails with the mode error for
\* every side and every index, and leaves the whole state as it was.
C5_InvalidModeNoChange == WrongMode => call.error = "mode" /\ Observed = pre

C5_Witness ==
    /\ WrongMode
    /\ phase = "action"
    /\ call.cardIndex < Len(players[call.playerId].hand)

\* the last call named no card of the hand it was made on
NoSuchCard ==
    call.cardIndex < 0 \/ call.cardIndex >= Len(pre.players[call.playerId].hand)

\* C6: in the matching mode a play call with no card at the index fails with
\* the card error in every phase, and leaves the whole state as it was.
C6_InvalidCardNoChange ==
    IsPlay /\ ~WrongMode /\ NoSuchCard => call.error = "card" /\ Observed = pre

C6_Witness ==
    /\ IsPlay /\ ~WrongMode /\ NoSuchCard
    /\ phase = "defense"
    /\ players[call.playerId].hand # <<>>

\* the last call was a startTurn whose active side was skipped
SkipTurn == call.op = "startTurn" /\ pre.players[pre.turn].skipped

\* C7: a startTurn whose active side is skipped draws nothing for either
\* side, clears that side's flag and leaves the other's, passes the turn with
\* phase 'end', runs the game-over check once and schedules one startTurn
\* exactly if the game continues.
C7_SkipConsumption ==
    SkipTurn =>
        /\ \A p \in Sides :
              /\ players[p].hand = pre.players[p].hand
              /\ players[p].deck = pre.players[p].deck
        /\ ~players[pre.turn].skipped
        /\ players[_getOpponent(pre.turn)].skipped
              = pre.players[_getOpponent(pre.turn)].skipped
        /\ turn = _getOpponent(pre.turn)
        /\ phase = "end"
        /\ Cardinality(TraceOf("_endTurn")) = 1
        /\ \A i \in TraceOf("_endTurn") :
              /\ trace[i].result = "none" <=> \A p \in Sides : players[p].hp > 0
              /\ pending = PendingBefore + (IF trace[i].result = "none" THEN 1 ELSE 0)

C7_Witness ==
    /\ SkipTurn
    /\ pending = 1
    /\ \A p \in Sides : players[p].deck # <<>>

AttackCardsOf(hand) == {i \in 1..Len(hand) : hand[i].type = "attack"}

\* the insert check at trace[i] applied the bonus attack (trace[i - 1])
InsertFired(i) ==
    i > 1 /\ trace[i - 1].fn = "_applyCardEffects" /\ trace[i - 1].insert

\* the heat difference the insert check at trace[i] saw
InsertDiff(i) ==
    trace[i].before[trace[i].result].heat - trace[i].before[trace[i].side].heat

\* C8: the bonus attack of _checkInsertTurn is applied exactly if
\* attacker.heat - defender.heat > 50 and the defender's hand holds an
\* attack-type card; it then applies the first attack-type card of the hand,
\* once, for the defender, with the insert flag.
C8_InsertTrigger ==
    /\ \A i \in TraceOf("_checkInsertTurn") :
          LET hand == trace[i].before[trace[i].side].hand
          IN  /\ InsertFired(i) <=>
                    InsertDiff(i) > InsertThreshold /\ AttackCardsOf(hand) # {}
              /\ InsertFired(i) =>
                    /\ trace[i - 1].side = trace[i].side
                    /\ trace[i - 1].card = hand[FirstOf(AttackCardsOf(hand))]
                    /\ trace[i - 1].before = trace[i].before
                    /\ trace[i - 1].after = trace[i].after
              /\ ~InsertFired(i) => trace[i].after = trace[i].before
    /\ \A j \in 1..Len(trace) :
          trace[j].insert => j < Len(trace) /\ trace[j + 1].fn = "_checkInsertTurn"
    /\ Cardinality(TraceOf("_checkInsertTurn")) <= 1

C8_Witness ==
    \E i \in TraceOf("_checkInsertTurn") :
        /\ InsertFired(i)
        /\ \E a, b \in AttackCardsOf(trace[i].before[trace[i].side].hand) :
              trace[i].before[trace[i].side].hand[a]
                  # trace[i].before[trace[i].side].hand[b]

\* C9: the insert check changes no hand and no deck, whether or not the bonus
\* attack fired; with a difference > 50 and no attack-type card in the
\* defender's hand it changes nothing of the players, and raises no error.
C9_InsertKeepsCards ==
    \A i \in TraceOf("_checkInsertTurn") :
        /\ \A p \in Sides :
              /\ trace[i].after[p].hand = trace[i].before[p].hand
              /\ trace[i].after[p].deck = trace[i].before[p].deck
        /\ (/\ InsertDiff(i) > InsertThreshold
            /\ AttackCardsOf(trace[i].before[trace[i].side].hand) = {})
              => trace[i].after = trace[i].before /\ call.error = "none"

C9_Witness ==
    \E i \in TraceOf("_checkInsertTurn") :
        /\ InsertFired(i)
        /\ trace[i].after # trace[i].before
        /\ trace[i].after[trace[i].side].hand # <<>>

\* the damage the formula gives for exact arithmetic
ExactDamage(base, a, d) == Max(0, (base * a * (100 - d)) \div 10000)

\* C10: an attack-type card with damage base takes
\* max(0, floor(base * A * (100 - D) / 10000)) from the opponent's hp, A the
\* striker's heat after the card's heatChange, D that same heat for a normal
\* play and the opponent's heat for an insert attack; a defense-type card
\* takes nothing; in a fresh classic game p1's {damage 25, heatChange 30}
\* brings p1 to heat 30 and p2 to hp 95.
C10_DamageFormula ==
    /\ \A i \in TraceOf("_applyCardEffects") :
          LET r     == trace[i]
              o     == _getOpponent(r.side)
              a     == r.before[r.side].heat + r.card.heatChange
              d     == IF r.insert THEN r.before[o].heat ELSE a
              dealt == r.before[o].hp - r.mid[o].hp
          IN  dealt = IF r.card.type = "attack" THEN ExactDamage(r.card.damage, a, d)
                      ELSE 0
    /\ (/\ mode = "classic" /\ call.op = "playCard" /\ call.error = "none"
        /\ call.playerId = "p1" /\ played["p1"] + played["p2"] = 1
        /\ pre.phase = "action"
        /\ Len(trace) = 1 /\ trace[1].card = Heavy)
          => players["p1"].heat = 30 /\ players["p2"].hp = 95

\* C11: each side's hp is <= 100 in every state, also between the steps of a
\* card's effects; a card with heal = k sets the acting side's hp to
\* min(100, hp + k), and the heal step leaves the opponent's hp as it is.
C11_HealClamp ==
    /\ \A p \in Sides : players[p].hp <= HpCap
    /\ \A i \in TraceOf("_applyCardEffects") :
          LET r == trace[i]
              o == _getOpponent(r.side)
          IN  /\ \A p \in Sides : r.mid[p].hp <= HpCap /\ r.after[p].hp <= HpCap
              /\ r.after[r.side].hp =
                    IF r.card.heal # 0 THEN Min(HpCap, r.mid[r.side].hp + r.card.heal)
                    ELSE r.mid[r.side].hp
              /\ r.after[o].hp = r.mid[o].hp

C11_Witness ==
    \E i \in TraceOf("_applyCardEffects") :
        /\ trace[i].card.heal > 0
        /\ trace[i].mid[trace[i].side].hp + trace[i].card.heal > HpCap
        /\ trace[i].mid[trace[i].side].hp < HpCap

\* the log entries the last call added that declare a winner
WinsLogged ==
    {k \in (Len(pre.log) + 1)..Len(log) : log[k][1] = "wins"}

\* C12: at every _endTurn the winner is p2 whenever p1.hp <= 0 (also when
\* p2.hp <= 0 as well), p1 only when p1.hp > 0 and p2.hp <= 0, and nobody
\* exactly when both hp are > 0; one game-over check declares at most one
\* winner.
C12_GameOverPrecedence ==
    \A i \in TraceOf("_endTurn") :
        /\ trace[i].result =
              IF trace[i].after["p1"].hp <= 0 THEN "p2"
              ELSE IF trace[i].after["p2"].hp <= 0 THEN "p1"
              ELSE "none"
        /\ trace[i].after = trace[i].before
        /\ Cardinality(WinsLogged) = IF trace[i].result = "none" THEN 0 ELSE 1
        /\ \A k \in WinsLogged : log[k] = <<"wins", trace[i].result>>

C12_Witness ==
    \E i \in TraceOf("_endTurn") :
        /\ trace[i].after["p1"].hp <= 0
        /\ trace[i].after["p2"].hp <= 0
        /\ trace[i].result = "p2"

\* the last call was a playCard that did not throw
PlayedClassic == call.op = "playCard" /\ call.error = "none"

\* the card the last play call named
PlayedCard == pre.players[call.playerId].hand[call.cardIndex + 1]

\* the last call ran a whole classic resolution with pre.turn as the attacker
ResolvedClassic ==
    /\ Cardinality(TraceOf("_checkInsertTurn")) = 1
    /\ \A k \in TraceOf("_checkInsertTurn") :
          trace[k].result = pre.turn /\ trace[k].side = _getOpponent(pre.turn)
    /\ Cardinality(TraceOf("_checkOverheat")) = 2
    /\ {trace[k].side : k \in TraceOf("_checkOverheat")} = Sides
    /\ trace[Len(trace)].fn = "_endTurn"
    /\ turn = _getOpponent(pre.turn)
    /\ phase = "end"

\* C13: a successful playCard(side, i) removes hand[i] and applies its
\* effects; then in 'action' by the active side the phase becomes 'defense'
\* with the turn unchanged; in 'defense' by the other side the turn is
\* resolved (insert check with the active side as attacker, overheat check of
\* both sides, turn flipped, phase 'end'); in every other combination phase
\* and turn stay and no overheat or insert check runs.
C13_ClassicPhases ==
    PlayedClassic =>
        /\ Len(trace) >= 1
        /\ trace[1].fn = "_applyCardEffects"
        /\ trace[1].side = call.playerId
        /\ trace[1].card = PlayedCard
        /\ ~trace[1].insert
        /\ trace[1].before =
              [pre.players EXCEPT ![call.playerId].hand = Splice(@, call.cardIndex)]
        /\ IF pre.phase = "action" /\ call.playerId = pre.turn
           THEN phase = "defense" /\ turn = pre.turn /\ Len(trace) = 1
           ELSE IF pre.phase = "defense" /\ call.playerId # pre.turn
           THEN ResolvedClassic
           ELSE phase = pre.phase /\ turn = pre.turn /\ Len(trace) = 1

C13_Witness ==
    /\ PlayedClassic
    /\ pre.phase = "defense"
    /\ call.playerId = pre.turn
    /\ call.cardIndex > 0

\* the last call was a playCardSimultaneous that did not throw
PlayedSimultaneous == call.op = "playCardSimultaneous" /\ call.error = "none"

\* the card side p has selected when the last call resolves or returns
Selected(p) ==
    IF call.playerId = p THEN PlayedCard ELSE pre.players[p].selectedCard

\* C14: a playCardSimultaneous that leaves the other side's slot empty only
\* moves the card from the hand into the caller's slot (no hp, heat, skipped,
\* turn or phase changes); the resolution runs exactly when both slots are
\* populated; between entry-point calls the two slots are never both
\* populated.
C14_SimultaneousStaging ==
    /\ ~(\A p \in Sides : players[p].selectedCard # NoCard)
    /\ PlayedSimultaneous =>
          /\ Resolved <=> pre.players[_getOpponent(call.playerId)].selectedCard # NoCard
          /\ trace # <<>> <=> Resolved
          /\ ~Resolved =>
                /\ players = [pre.players EXCEPT
                                 ![call.playerId].hand = Splice(@, call.cardIndex),
                                 ![call.playerId].selectedCard = PlayedCard]
                /\ turn = pre.turn
                /\ phase = pre.phase
                /\ pending = PendingBefore
          /\ Resolved => \A p \in Sides : players[p].selectedCard = NoCard

C14_Witness ==
    /\ PlayedSimultaneous
    /\ ~Resolved
    /\ players[call.playerId].selectedCard # NoCard
    /\ players[call.playerId].heat # 0

AttackSides == {p \in Sides : Selected(p).type = "attack"}

\* C15: _resolveSimultaneousTurn applies both selected cards, p1's first and
\* then p2's; the insert check runs exactly if one of the two cards is
\* attack-type, with that card's side as attacker and the other as defender;
\* with two attack cards or two defense cards no insert check runs and no
\* insert attack fires, whatever the heat gap.
C15_SimultaneousPairing ==
    PlayedSimultaneous /\ Resolved =>
        /\ Len(trace) >= 2
        /\ trace[1].fn = "_applyCardEffects" /\ trace[2].fn = "_applyCardEffects"
        /\ trace[1].side = "p1" /\ trace[1].card = Selected("p1") /\ ~trace[1].insert
        /\ trace[2].side = "p2" /\ trace[2].card = Selected("p2") /\ ~trace[2].insert
        /\ trace[2].before = trace[1].after
        /\ \A p \in Sides : trace[1].before[p].heat = pre.players[p].heat
        /\ IF Cardinality(AttackSides) = 1
           THEN /\ Cardinality(TraceOf("_checkInsertTurn")) = 1
                /\ \A k \in TraceOf("_checkInsertTurn") :
                      /\ trace[k].result \in AttackSides
                      /\ trace[k].side = _getOpponent(trace[k].result)
                      /\ trace[k].before = trace[2].after
           ELSE /\ TraceOf("_checkInsertTurn") = {}
                /\ \A j \in 1..Len(trace) : ~trace[j].insert
                /\ trace[3].fn = "_checkOverheat"
                /\ \A p \in Sides : trace[3].before[p].hp = trace[2].after[p].hp

C15_Witness ==
    /\ PlayedSimultaneous /\ Resolved
    /\ Cardinality(AttackSides) = 2
    /\ \E p \in Sides :
          trace[2].after[p].heat - trace[2].after[_getOpponent(p)].heat > InsertThreshold

TurnStartedFor(t) ==
    call.op = "startTurn" /\ call.by = "timer" /\ pre.turn = t

BothSkipped == \A p \in Sides : players[p].skipped

\* C17: with the timer firing every scheduled continuation, whenever _endTurn
\* has left a continuation pending (both hp > 0), startTurn eventually runs for
\* the new active side, and the game eventually reaches phase 'action', at
\* once or after the skips are consumed; also when both sides are skipped.
C17_NextTurnStarts ==
    /\ \A t \in Sides : (pending > 0 /\ turn = t) ~> TurnStartedFor(t)
    /\ (phase = "end" /\ pending > 0) ~> (phase = "action" /\ ~BothSkipped)

C17_Witness == phase = "end" /\ pending > 0 /\ BothSkipped

\* the last call was a startTurn whose active side was not skipped
DrawTurn == call.op = "startTurn" /\ ~pre.players[pre.turn].skipped

\* the log entry of side p's draw at the last call, none for an empty deck
DrawLogged(p) ==
    IF pre.players[p].deck # <<>>
    THEN <<<<"draw", p, Head(pre.players[p].deck).name>>>>
    ELSE <<>>

\* C18: a startTurn whose active side is not skipped moves the front card of
\* each non-empty deck to the end of that side's hand, the active side first,
\* leaves a side with an empty deck unchanged without an error, changes no hp,
\* heat or skipped flag and not the turn, and ends with phase 'action'.
C18_DrawAtTurnStart ==
    DrawTurn =>
        /\ \A p \in Sides :
              players[p] =
                  IF pre.players[p].deck # <<>>
                  THEN [pre.players[p] EXCEPT
                           !.hand = Append(@, Head(pre.players[p].deck)),
                           !.deck = Tail(@)]
                  ELSE pre.players[p]
        /\ log = pre.log \o DrawLogged(pre.turn) \o DrawLogged(_getOpponent(pre.turn))
                         \o <<<<"turnStart", pre.turn>>>>
        /\ call.error = "none"
        /\ turn = pre.turn
        /\ phase = "action"
        /\ pending = PendingBefore

C18_Witness ==
    /\ DrawTurn
    /\ \A p \in Sides : pre.players[p].hand # <<>> /\ pre.players[p].deck # <<>>
    /\ \E p \in Sides : Head(pre.players[p].deck) # pre.players[p].hand[1]

\* the cards a side holds, the hand before the deck
Holding(player) == player.hand \o player.deck

\* the last call was a play of side p that did not throw
PlayedBy(p) == IsPlay /\ call.error = "none" /\ call.playerId = p

\* C19: for each side, hand + deck + the side's successful plays is the size
\* of the deck given at construction; a successful play takes exactly the
\* played card from the side's cards, and no other call (draw, insert attack,
\* resolution, skip, overheat) adds, copies, removes or moves a card.
C19_CardConservation ==
    \A p \in Sides :
        /\ Len(players[p].hand) + Len(players[p].deck) + played[p] = DeckLen
        /\ Holding(players[p]) =
              IF PlayedBy(p) THEN Splice(Holding(pre.players[p]), call.cardIndex)
              ELSE Holding(pre.players[p])

C19_Witness ==
    \E i \in TraceOf("_checkInsertTurn") :
        /\ InsertFired(i)
        /\ played[trace[i].side] = 1
        /\ Len(players[trace[i].side].hand) + Len(players[trace[i].side].deck) = DeckLen - 1

\* the hp an _applyCardEffects record took from the opponent
Dealt(r) == r.before[_getOpponent(r.side)].hp - r.mid[_getOpponent(r.side)].hp

\* the striker's heat after the card's heatChange
StrikeHeat(r) == r.before[r.side].heat + r.card.heatChange

\* the heat the defense multiplier of the record read
ReferenceHeat(r) ==
    IF r.insert THEN r.before[_getOpponent(r.side)].heat ELSE StrikeHeat(r)

\* a side's hp grows in a record only by its own heal card
HealsOnly(r) ==
    \A p \in Sides :
        /\ r.mid[p].hp <= r.before[p].hp
        /\ r.after[p].hp > r.mid[p].hp => p = r.side /\ r.card.heal > 0

\* C20 as claimed: the damage _applyCardEffects subtracts is >= 0 for every
\* card and heat, a side's hp grows only by its own heal card, and an attack
\* (normal or insert) whose defense-reference heat is >= 100 or whose attacker
\* heat is <= 0 deals exactly 0.
C20_DamageNonNegative_AsClaimed ==
    \A i \in TraceOf("_applyCardEffects") :
        /\ Dealt(trace[i]) >= 0
        /\ HealsOnly(trace[i])
        /\ (ReferenceHeat(trace[i]) >= 100 \/ StrikeHeat(trace[i]) <= 0)
              => Dealt(trace[i]) = 0

\* C20 as amended: the damage is >= 0, hp grows only by the side's own heal
\* card, and an attack whose defense-reference heat is >= 100 or whose attacker
\* heat is <= 0 deals exactly 0 unless the attacker heat is < 0 and the
\* reference heat is > 100 at once (an insert attack with both multipliers
\* negative, whose positive product is dealt).
C20_DamageNonNegative ==
    \A i \in TraceOf("_applyCardEffects") :
        /\ Dealt(trace[i]) >= 0
        /\ HealsOnly(trace[i])
        /\ (/\ ReferenceHeat(trace[i]) >= 100 \/ StrikeHeat(trace[i]) <= 0
            /\ ~(StrikeHeat(trace[i]) < 0 /\ ReferenceHeat(trace[i]) > 100))
              => Dealt(trace[i]) = 0
        /\ ~trace[i].insert /\ (StrikeHeat(trace[i]) >= 100 \/ StrikeHeat(trace[i]) <= 0)
              => Dealt(trace[i]) = 0

C20_Witness ==
    \E i \in TraceOf("_applyCardEffects") :
        /\ trace[i].insert
        /\ StrikeHeat(trace[i]) < 0
        /\ ReferenceHeat(trace[i]) > 100
        /\ Dealt(trace[i]) > 0

====
